---------------------------- MODULE Spec2Model ----------------------------
(***************************************************************************)
(* A model of circuitpython-iperf (src/iperf.py): the Stats accumulator,   *)
(* the recvn helper, and the client() / server() role drivers talking over *)
(* a control stream and a data channel.                                    *)
(*                                                                         *)
(* These state machines share the variables below:                        *)
(*   SpecTicks  - ticks_diff of the millisecond clock on pairs of readings *)
(*   SpecStats  - a Stats object driven by its callers' operations         *)
(*   SpecRecvn  - recvn() reading from a stream its peer writes and closes *)
(*   Spec       - one run of client() against server()                     *)
(*   FairSpec   - Spec with the fairness the poll loops justify            *)
(*   SpecStray  - Spec with a peer that writes extra command bytes         *)
(*   SpecStart  - client() after CREATE_STREAMS, start commands any order  *)
(*   SpecWrap   - client() sending on the millisecond clock, near a wrap   *)
(* Time is counted in model ticks; the clock value is `now`.               *)
(***************************************************************************)
EXTENDS Integers, Sequences, FiniteSets, TLC

(***************************************************************************)
(* Bounds of the model.                                                    *)
(***************************************************************************)
\* ticks per second of the model clock (the source has 1000 or 10^9)
TICKS_PER_SEC == 2
\* largest clock reading explored
MaxNow == 4
\* param['len']: length of the data buffer, in bytes
BufLen == 2
\* largest UDP sequence id a received datagram carries
MaxId == 3
\* number of operations applied to the Stats object in SpecStats
StatsMaxOps == 5
\* SpecRecvn: largest n passed to recvn, bytes the peer writes, and
\* recv_into calls at end of stream that are followed
RvMaxN == 3
RvMaxBytes == 4
RvMaxEofs == 2
\* Spec: length of the text of a JSON blob, in bytes
JsonLen == 2
\* Spec: bytes (TCP, server to client) or datagrams (UDP) a data wire holds
DataCap == 2
\* Spec: bytes the TCP data stream from client to server holds
TcpFwdCap == 6
\* Spec: data-socket events of the client followed before the test ends
MaxEvents == 3
\* Spec: param['time'], the length of the test in seconds
ParamTime == 1
\* SpecTicks: the millisecond counter has period 2^TickBits (the source: 29)
TickBits == 5
\* SpecWrap: a run starts at most this many ticks before the counter wraps
WrapLead == 3

(***************************************************************************)
(* Program constants.                                                      *)
(***************************************************************************)
\* self.pacing_timer, in ticks: param['pacing_timer'] * (TICKS_PER_SEC/1e6)
\* with pacing_timer = 1000 us on the millisecond clock
PacingTimer == 1

VARIABLES
    now,            \* the value ticks() returns
    tk_a,           \* SpecTicks: the time of the later reading, not wrapped
    tk_b,           \* SpecTicks: the time of the earlier reading, not wrapped
    tk_diff,        \* SpecTicks: ticks_diff of the two counter readings
    cstats,         \* the client's Stats object
    udp_packet_id,  \* client(): last sequence id received / sent
    st_op,          \* SpecStats: the last operation applied, <<name, arg>>
    st_nops,        \* SpecStats: number of operations applied so far
    st_ids,         \* SpecStats: the sequence ids received so far
    st_started,     \* SpecStats: start() has been called
    st_dirty,       \* SpecStats: an add_* call has happened since <<the
                    \* previous update(), the last reset of the interval>>
    rv_pc,          \* SpecRecvn: "idle", or "loop" inside recvn's while loop
    rv_n,           \* SpecRecvn: recvn's argument n
    rv_data,        \* SpecRecvn: recvn's local data
    rv_ret,         \* SpecRecvn: what the last call of recvn returned
    rv_stream,      \* SpecRecvn: bytes the peer has written, not yet read
    rv_written,     \* SpecRecvn: number of bytes the peer has written
    rv_closed,      \* SpecRecvn: the peer has closed the socket
    rv_eofs,        \* SpecRecvn: recv_into calls of this recvn that returned 0
    \* ---- Spec: the arguments of client() ----
    udp,            \* client(udp=...)
    reverse,        \* client(reverse=...)
    ptime,          \* client(ttime=...): param['time'], in seconds
    bare,           \* the parameters the server gets have neither tcp nor udp
    \* ---- Spec: the wires ----
    c2s,            \* control stream client -> server: bytes written, unread
    s2c,            \* control stream server -> client
    tcp_c2s,        \* TCP data stream client -> server: number of unread bytes
    tcp_s2c,        \* TCP data stream server -> client
    udp_c2s,        \* UDP datagrams client -> server, not yet received
    udp_s2c,        \* UDP datagrams server -> client
    \* ---- Spec: client() ----
    cpc,            \* where client() is
    cbatch,         \* what is left of the list poll.poll() returned
    c_sctrl,        \* s_ctrl: "none", "open" or "closed"
    c_sdata,        \* s_data: "none" (None), "open" or "closed"
    c_reg,          \* s_data is registered with poll
    start,          \* start (NoTick while None)
    udp_last_send,  \* udp_last_send
    c_rdata,        \* data of the recvn call in progress
    c_off,          \* off of the recvninto call in progress
    c_events,       \* data-socket events handled before the end of the test
    c_log,          \* history: what client() has written to s_ctrl
    c_obs,          \* history: <<expired events, TEST_END writes, stop() calls>>
    \* ---- Spec: server() ----
    spc,            \* where server() is
    sbatch,         \* what is left of the list poll.poll() returned
    s_listen,       \* s_listen: "open" or "closed"
    s_ctrl,         \* s_ctrl: "none", "open" or "closed"
    s_data,         \* s_data: "none", "open" or "closed"
    s_rdata,        \* data of the recvn call in progress
    s_off,          \* bytes read by the recvn / recvninto on s_data in progress
    running,        \* running
    sstats,         \* the server's Stats object
    s_bufid,        \* what data_buf holds in bytes 8..11
    s_log,          \* history: what server() has written and read on s_ctrl
    framing_ok      \* history: every control read got what it was meant to get

statsVars == <<cstats, udp_packet_id, st_op, st_nops, st_ids, st_started,
               st_dirty>>
recvVars == <<rv_pc, rv_n, rv_data, rv_ret, rv_stream, rv_written, rv_closed,
              rv_eofs>>
wireVars == <<c2s, s2c, tcp_c2s, tcp_s2c, udp_c2s, udp_s2c>>
clientVars == <<cpc, cbatch, c_sctrl, c_sdata, c_reg, start, udp_last_send,
                c_rdata, c_off, c_events, c_log, c_obs>>
serverVars == <<spc, sbatch, s_listen, s_ctrl, s_data, s_rdata, s_off,
                running, sstats, s_bufid, s_log>>
protoVars == <<udp, reverse, ptime, bare, wireVars, clientVars, serverVars, framing_ok>>
tickVars == <<tk_a, tk_b, tk_diff>>
vars == <<now, tickVars, statsVars, recvVars, protoVars>>

(***************************************************************************)
(* Clock.  With time.monotonic_ns the readings never wrap and ticks_diff   *)
(* subtracts; otherwise the clock is supervisor.ticks_ms(), a counter that *)
(* wraps at TICKS_PERIOD.                                                  *)
(***************************************************************************)
ticks_diff(arg1, arg2) == arg1 - arg2

\* _TICKS_PERIOD = 1<<29, _TICKS_MAX, _TICKS_HALFPERIOD
TICKS_PERIOD == 2 ^ TickBits
TICKS_MAX == TICKS_PERIOD - 1
TICKS_HALFPERIOD == TICKS_PERIOD \div 2

\* x & y on Python integers, y >= 0: bit by bit, a negative x in two's
\* complement (its lowest bit is x % 2, the rest is x \div 2 rounded down)
RECURSIVE BitAnd(_, _)
BitAnd(x, y) ==
    IF y = 0 THEN 0
    ELSE (x % 2) * (y % 2) + 2 * BitAnd(x \div 2, y \div 2)

(* Variant without the half-period step: the difference as a counter
   value. *)
Mut_ticks_diff_unsigned(ticks1, ticks2) ==
    BitAnd(ticks1 - ticks2, TICKS_MAX)

\* ticks_diff of the millisecond clock
ticks_diff_ms(ticks1, ticks2) ==
    LET diff == BitAnd(ticks1 - ticks2, TICKS_MAX)
    IN  BitAnd(diff + TICKS_HALFPERIOD, TICKS_MAX) - TICKS_HALFPERIOD

\* supervisor.ticks_ms() at the time t
ticks_ms(t) == t % TICKS_PERIOD

(***************************************************************************)
(* SpecTicks: ticks_diff_ms applied to the counter readings at two times   *)
(* within two periods of the counter.                                      *)
(***************************************************************************)
TickIdle ==
    /\ tk_a = 0
    /\ tk_b = 0
    /\ tk_diff = 0

(***************************************************************************)
(* class Stats.  An object is a record; the counters exist from start().  *)
(***************************************************************************)
Stats_init ==
    [running |-> FALSE, t0 |-> 0, t1 |-> 0, t3 |-> 0,
     nb0 |-> 0, nb1 |-> 0, np0 |-> 0, np1 |-> 0, nm0 |-> 0, nm1 |-> 0]

Stats_start(s, t) ==
    [s EXCEPT !.running = TRUE, !.t0 = t, !.t1 = t,
              !.nb0 = 0, !.nb1 = 0, !.np0 = 0, !.np1 = 0,
              !.nm0 = 0, !.nm1 = 0]

Mut_add_bytes_unguarded(s, n) ==
    [s EXCEPT !.nb0 = @ + n, !.nb1 = @ + n, !.np0 = @ + 1, !.np1 = @ + 1]

Stats_add_bytes(s, n) ==
    IF ~s.running THEN s
    ELSE [s EXCEPT !.nb0 = @ + n, !.nb1 = @ + n,
                   !.np0 = @ + 1, !.np1 = @ + 1]

Stats_add_lost_packets(s, n) ==
    [s EXCEPT !.np0 = @ + n, !.np1 = @ + n, !.nm0 = @ + n, !.nm1 = @ + n]

(* Variant of update() that also clears the totals at the end of an
   interval. *)
Mut_update_clears_totals(s, final, t2) ==
    IF ~s.running THEN s
    ELSE IF final \/ ticks_diff(t2, s.t1) > PacingTimer
         THEN [s EXCEPT !.t1 = t2, !.nb1 = 0, !.np1 = 0, !.nm1 = 0,
                        !.nb0 = 0, !.np0 = 0, !.nm0 = 0]
         ELSE s

Stats_update(s, final, t2) ==
    IF ~s.running THEN s
    ELSE IF final \/ ticks_diff(t2, s.t1) > PacingTimer
         THEN [s EXCEPT !.t1 = t2, !.nb1 = 0, !.np1 = 0, !.nm1 = 0]
         ELSE s

\* update() called at t2 ends the interval: running, and more than
\* pacing_timer ticks since t1
IntervalOver(s, t2) == s.running /\ ticks_diff(t2, s.t1) > PacingTimer

(* Variant of stop() that forgets to clear the running flag. *)
Mut_stop_keeps_running(s, t) ==
    [Stats_update(s, TRUE, t) EXCEPT !.t3 = t]

Stats_stop(s, t) ==
    [Stats_update(s, TRUE, t) EXCEPT !.running = FALSE, !.t3 = t]

\* max_dt_ms(): -1 when not running, else the time to the next pacing
\* boundary, never negative (one tick is one millisecond here)
Stats_max_dt_ms(s, t) ==
    IF ~s.running THEN -1
    ELSE LET d == PacingTimer - ticks_diff(t, s.t1) IN IF d > 0 THEN d ELSE 0

(***************************************************************************)
(* client(), UDP reverse branch of the data pump (lines 402-408): one      *)
(* datagram with sequence id udp_in_id has been read into buf.             *)
(***************************************************************************)
UdpReverseStats(s, pid, udp_in_id) ==
    Stats_add_bytes(
        IF udp_in_id # pid + 1
        THEN Stats_add_lost_packets(s, udp_in_id - (pid + 1))
        ELSE s,
        BufLen)

(***************************************************************************)
(* SpecStats: the Stats object under the operations its callers apply.    *)
(***************************************************************************)
StatsIdle ==
    /\ cstats = Stats_init
    /\ udp_packet_id = 0
    /\ st_op = <<"new", 0>>
    /\ st_nops = 0
    /\ st_ids = << >>
    /\ st_started = FALSE
    /\ st_dirty = <<FALSE, FALSE>>

RecvIdle ==
    /\ rv_pc = "idle"
    /\ rv_n = 0
    /\ rv_data = << >>
    /\ rv_ret = << >>
    /\ rv_stream = << >>
    /\ rv_written = 0
    /\ rv_closed = FALSE
    /\ rv_eofs = 0

\* start = None, udp_last_send not yet assigned (no clock reading, and no
\* reading minus udp_interval, is below -1)
NoTick == -2

\* before client() and server() are called
ProtoIdle ==
    /\ udp = FALSE /\ reverse = FALSE /\ ptime = 0 /\ bare = FALSE
    /\ c2s = << >> /\ s2c = << >>
    /\ tcp_c2s = 0 /\ tcp_s2c = 0
    /\ udp_c2s = << >> /\ udp_s2c = << >>
    /\ cpc = "idle" /\ cbatch = << >>
    /\ c_sctrl = "none" /\ c_sdata = "none" /\ c_reg = FALSE
    /\ start = NoTick /\ udp_last_send = NoTick
    /\ c_rdata = << >> /\ c_off = 0 /\ c_events = 0
    /\ c_log = << >> /\ c_obs = <<0, 0, 0>>
    /\ spc = "idle" /\ sbatch = << >>
    /\ s_listen = "closed" /\ s_ctrl = "none" /\ s_data = "none"
    /\ s_rdata = << >> /\ s_off = 0
    /\ running = FALSE /\ sstats = Stats_init /\ s_bufid = 0
    /\ s_log = << >>
    /\ framing_ok = TRUE

\* tk_diff before ticks_diff has been called (no result is that large)
NoDiff == TICKS_PERIOD

\* the clock has been read at the times tk_a and tk_b, both within two
\* periods of the counter
TicksInit ==
    /\ now = 0
    /\ tk_a \in 0..(2 * TICKS_PERIOD - 1)
    /\ tk_b \in 0..(2 * TICKS_PERIOD - 1)
    /\ tk_diff = NoDiff
    /\ StatsIdle
    /\ RecvIdle
    /\ ProtoIdle

\* ticks_diff is applied to the two readings
TkDiff ==
    /\ tk_diff = NoDiff
    /\ tk_diff' = ticks_diff_ms(ticks_ms(tk_a), ticks_ms(tk_b))
    /\ UNCHANGED <<now, tk_a, tk_b, statsVars, recvVars, protoVars>>

SpecTicks == TicksInit /\ [][TkDiff]_vars

StatsInit ==
    /\ now = 0
    /\ TickIdle
    /\ RecvIdle
    /\ ProtoIdle
    /\ cstats = Stats_init
    /\ udp_packet_id = 0
    /\ st_op = <<"new", 0>>
    /\ st_nops = 0
    /\ st_ids = << >>
    /\ st_started = FALSE
    /\ st_dirty = <<FALSE, FALSE>>

\* what a step of SpecStats leaves alone
StFrame == UNCHANGED <<tickVars, recvVars, protoVars>>

StOp(name, arg) ==
    /\ StFrame
    /\ st_nops < StatsMaxOps
    /\ st_nops' = st_nops + 1
    /\ st_op' = <<name, arg>>

StStart ==
    /\ ~st_started
    /\ StOp("start", 0)
    /\ cstats' = Stats_start(cstats, now)
    /\ st_started' = TRUE
    /\ st_dirty' = <<FALSE, FALSE>>
    /\ UNCHANGED <<now, udp_packet_id, st_ids>>

StAddBytes ==
    \E n \in 1..BufLen :
        /\ StOp("add_bytes", n)
        /\ cstats' = Stats_add_bytes(cstats, n)
        /\ st_dirty' = <<TRUE, TRUE>>
        /\ UNCHANGED <<now, udp_packet_id, st_ids, st_started>>

StUdpReverseRecv ==
    \E udp_in_id \in 1..MaxId :
        /\ cstats.running
        /\ StOp("udp_recv", udp_in_id)
        /\ cstats' = UdpReverseStats(cstats, udp_packet_id, udp_in_id)
        /\ udp_packet_id' = udp_in_id
        /\ st_ids' = Append(st_ids, udp_in_id)
        /\ st_dirty' = <<TRUE, TRUE>>
        /\ UNCHANGED <<now, st_started>>

StUpdate ==
    /\ StOp("update", 0)
    /\ cstats' = Stats_update(cstats, FALSE, now)
    /\ st_dirty' = <<FALSE, st_dirty[2] /\ ~IntervalOver(cstats, now)>>
    /\ UNCHANGED <<now, udp_packet_id, st_ids, st_started>>

StStop ==
    /\ cstats.running
    /\ StOp("stop", 0)
    /\ cstats' = Stats_stop(cstats, now)
    /\ st_dirty' = <<FALSE, FALSE>>
    /\ UNCHANGED <<now, udp_packet_id, st_ids, st_started>>

StTick ==
    /\ now < MaxNow
    /\ now' = now + 1
    /\ StFrame
    /\ UNCHANGED statsVars

StatsNext ==
    \/ StStart
    \/ StAddBytes
    \/ StUdpReverseRecv
    \/ StUpdate
    \/ StStop
    \/ StTick

SpecStats == StatsInit /\ [][StatsNext]_vars

(***************************************************************************)
(* recvn(s, n) (lines 176-182) on a stream socket.  The peer's bytes are   *)
(* numbered 1, 2, 3, ... in the order written.  recv_into(buf) blocks      *)
(* while the stream is empty and open, returns 0 once the peer has closed  *)
(* and nothing is left, and otherwise returns any number of bytes from 1   *)
(* up to what has arrived and fits into buf.                               *)
(***************************************************************************)
Min(a, b) == IF a < b THEN a ELSE b

\* len(buf): buf = bytearray(min(n, 8192))
RECV_CHUNK == 8192
recvn_buflen(n) == Min(n, RECV_CHUNK)

\* the byte counts recv_into(buf) can return with `stream` unread
recv_into_counts(buflen, stream) == 1..Min(buflen, Len(stream))

\* what a step of SpecRecvn leaves alone
RvFrame == UNCHANGED <<now, tickVars, statsVars, protoVars>>

RvPeerWrite ==
    /\ RvFrame
    /\ ~rv_closed
    /\ rv_written < RvMaxBytes
    /\ rv_written' = rv_written + 1
    /\ rv_stream' = Append(rv_stream, rv_written + 1)
    /\ UNCHANGED <<rv_pc, rv_n, rv_data, rv_ret, rv_closed, rv_eofs>>

RvPeerClose ==
    /\ RvFrame
    /\ ~rv_closed
    /\ rv_closed' = TRUE
    /\ UNCHANGED <<rv_pc, rv_n, rv_data, rv_ret, rv_stream, rv_written,
                   rv_eofs>>

\* recvn(s, n) is called: data = b''
RvCall ==
    \E n \in 1..RvMaxN :
        /\ RvFrame
        /\ rv_pc = "idle"
        /\ rv_pc' = "loop"
        /\ rv_n' = n
        /\ rv_data' = << >>
        /\ rv_eofs' = 0
        /\ UNCHANGED <<rv_ret, rv_stream, rv_written, rv_closed>>

\* one pass of the loop body: n_bytes = s.recv_into(buf); data += buf[:n_bytes]
RvRecvInto ==
    /\ RvFrame
    /\ rv_pc = "loop"
    /\ Len(rv_data) < rv_n
    /\ \E k \in recv_into_counts(recvn_buflen(rv_n), rv_stream) :
           /\ rv_data' = rv_data \o SubSeq(rv_stream, 1, k)
           /\ rv_stream' = SubSeq(rv_stream, k + 1, Len(rv_stream))
    /\ UNCHANGED <<rv_pc, rv_n, rv_ret, rv_written, rv_closed, rv_eofs>>

\* the same pass at end of stream: recv_into returns 0, data is unchanged
RvRecvEof ==
    /\ RvFrame
    /\ rv_pc = "loop"
    /\ Len(rv_data) < rv_n
    /\ rv_stream = << >>
    /\ rv_closed
    /\ rv_eofs < RvMaxEofs
    /\ rv_eofs' = rv_eofs + 1
    /\ UNCHANGED <<rv_pc, rv_n, rv_data, rv_ret, rv_stream, rv_written,
                   rv_closed>>

\* the loop condition fails: return data
RvReturn ==
    /\ RvFrame
    /\ rv_pc = "loop"
    /\ Len(rv_data) >= rv_n
    /\ rv_pc' = "idle"
    /\ rv_ret' = rv_data
    /\ UNCHANGED <<rv_n, rv_data, rv_stream, rv_written, rv_closed, rv_eofs>>

RecvnInit ==
    /\ now = 0
    /\ TickIdle
    /\ StatsIdle
    /\ RecvIdle
    /\ ProtoIdle

RecvnNext ==
    \/ RvPeerWrite
    \/ RvPeerClose
    \/ RvCall
    \/ RvRecvInto
    \/ RvRecvEof
    \/ RvReturn

SpecRecvn == RecvnInit /\ [][RecvnNext]_vars

(***************************************************************************)
(* Spec: one run of client() against server().                             *)
(*                                                                         *)
(* A byte on a control stream is <<kind, tag, index>>: the i-th byte of a  *)
(* cookie <<"cookie", 0, i>>, a command byte <<"cmd", command, 1>>, the    *)
(* i-th byte of the 4-byte length prefix of a JSON blob <<"len", blob, i>>,*)
(* the i-th byte of its text <<"body", blob, i>>.  A TCP data stream is    *)
(* the number of bytes in it; a UDP datagram is <<kind, sequence id>>.     *)
(* The data wires hold at most DataCap bytes / datagrams: a socket is      *)
(* writable while there is room.                                           *)
(***************************************************************************)
\* iperf3 cookie size
COOKIE_SIZE == 37

\* iperf3 commands
TEST_START == 1
TEST_RUNNING == 2
TEST_END == 4
PARAM_EXCHANGE == 9
CREATE_STREAMS == 10
EXCHANGE_RESULTS == 13
DISPLAY_RESULTS == 14
IPERF_DONE == 16

\* the JSON blobs: the parameters, the client's results, the server's results
PARAM == 1
CRES == 2
SRES == 3

\* ticks_end = param['time'] * TICKS_PER_SEC
ticks_end == ptime * TICKS_PER_SEC

\* udp_interval = TICKS_PER_SEC * 8 * param['len'] // bandwidth, in ticks
udp_interval == 1

CmdByte(c) == <<"cmd", c, 1>>
CookieBytes == [i \in 1..COOKIE_SIZE |-> <<"cookie", 0, i>>]
\* struct.pack('>I', len(text))
LenBytes(blob) == [i \in 1..4 |-> <<"len", blob, i>>]
\* bytes(text, 'ascii')
BodyBytes(blob) == [i \in 1..JsonLen |-> <<"body", blob, i>>]
BlobBytes(blob) == LenBytes(blob) \o BodyBytes(blob)

\* the lists poll.poll() can return for the sockets that are ready
Batches(ctrl, data) ==
    IF ctrl /\ data THEN {<<"ctrl", "data">>, <<"data", "ctrl">>}
    ELSE IF ctrl THEN {<<"ctrl">>}
    ELSE IF data THEN {<<"data">>}
    ELSE {}

\* what a step of Spec leaves alone
PrFrame == UNCHANGED <<tickVars, recvVars, st_op, st_nops, st_ids, st_started,
                       st_dirty, udp, reverse, ptime, bare>>

(***************************************************************************)
(* client()                                                                *)
(***************************************************************************)
\* ticks_diff(t, start) > ticks_end
Expired == ticks_diff(now, start) > ticks_end

CCtrlReady == s2c # << >>

\* the data socket is registered and readable (reverse) / writable; of the
\* events before the end of the test, MaxEvents are followed
CDataReady ==
    /\ c_reg
    /\ Expired \/ c_events < MaxEvents
    /\ IF reverse
       THEN IF udp THEN udp_s2c # << >>
                   ELSE tcp_s2c > 0 \/ s_data = "closed"
       ELSE IF udp THEN Len(udp_c2s) < DataCap
                   ELSE tcp_c2s < TcpFwdCap

\* lines 363-384: connect, send the cookie, register s_ctrl
ClientConnect ==
    /\ PrFrame
    /\ cpc = "start"
    /\ s_listen = "open"
    /\ c_sctrl' = "open"
    /\ c2s' = c2s \o CookieBytes
    /\ c_log' = Append(c_log, "cookie")
    /\ cpc' = "poll"
    /\ UNCHANGED <<now, cstats, udp_packet_id, s2c, tcp_c2s, tcp_s2c, udp_c2s,
                   udp_s2c, cbatch, c_sdata, c_reg, start, udp_last_send,
                   c_rdata, c_off, c_events, c_obs, serverVars, framing_ok>>

\* line 386: poll.poll(stats.max_dt_ms()) returns the ready sockets, or
\* nothing once the timeout has run out
ClientPoll ==
    /\ PrFrame
    /\ cpc = "poll"
    /\ \/ \E b \in Batches(CCtrlReady, CDataReady) : cbatch' = b
       \/ /\ ~CCtrlReady /\ ~CDataReady
          /\ Stats_max_dt_ms(cstats, now) = 0
          /\ cbatch' = << >>
    /\ cpc' = "batch"
    /\ UNCHANGED <<now, cstats, udp_packet_id, wireVars, c_sctrl, c_sdata,
                   c_reg, start, udp_last_send, c_rdata, c_off, c_events,
                   c_log, c_obs, serverVars, framing_ok>>

\* line 497: the batch is done, stats.update()
ClientUpdate ==
    /\ PrFrame
    /\ cpc = "batch" /\ cbatch = << >>
    /\ cstats' = Stats_update(cstats, FALSE, now)
    /\ cpc' = "poll"
    /\ UNCHANGED <<now, udp_packet_id, wireVars, cbatch, c_sctrl, c_sdata,
                   c_reg, start, udp_last_send, c_rdata, c_off, c_events,
                   c_log, c_obs, serverVars, framing_ok>>

(* Variant of the handling of a data event after EXCHANGE_RESULTS in which
   s_data still names the closed socket, so that the data branch is taken
   and sends. *)
Mut_ClientDataStaleSends ==
    /\ PrFrame
    /\ cpc = "batch" /\ cbatch # << >> /\ Head(cbatch) = "data"
    /\ c_sdata # "open"
    /\ cbatch' = Tail(cbatch)
    /\ tcp_c2s' = tcp_c2s + 1
    /\ UNCHANGED <<now, cstats, udp_packet_id, c2s, s2c, tcp_s2c, udp_c2s,
                   udp_s2c, cpc, c_sctrl, c_sdata, c_reg, start,
                   udp_last_send, c_rdata, c_off, c_events, c_log, c_obs,
                   serverVars, framing_ok>>

\* lines 387, 426: an event of the data socket after s_data = None matches
\* neither branch
ClientDataStale ==
    /\ PrFrame
    /\ cpc = "batch" /\ cbatch # << >> /\ Head(cbatch) = "data"
    /\ c_sdata # "open"
    /\ cbatch' = Tail(cbatch)
    /\ UNCHANGED <<now, cstats, udp_packet_id, wireVars, cpc, c_sctrl,
                   c_sdata, c_reg, start, udp_last_send, c_rdata, c_off,
                   c_events, c_log, c_obs, serverVars, framing_ok>>

CDataEvent ==
    /\ PrFrame
    /\ cpc = "batch" /\ cbatch # << >> /\ Head(cbatch) = "data"
    /\ c_sdata = "open"
    /\ cbatch' = Tail(cbatch)

\* lines 390-397: the test time is over.  In reverse mode one recvinto
\* drains the data socket; if stats is running, send TEST_END and stop.
ClientDataExpired ==
    /\ CDataEvent
    /\ Expired
    /\ IF reverse /\ udp
       THEN /\ udp_s2c # << >>
            /\ udp_s2c' = Tail(udp_s2c)
            /\ UNCHANGED tcp_s2c
       ELSE IF reverse
       THEN /\ tcp_s2c > 0 \/ s_data = "closed"
            /\ \E k \in (IF tcp_s2c > 0 THEN 1..Min(BufLen, tcp_s2c) ELSE {0}) :
                   tcp_s2c' = tcp_s2c - k
            /\ UNCHANGED udp_s2c
       ELSE UNCHANGED <<tcp_s2c, udp_s2c>>
    /\ IF cstats.running
       THEN /\ c2s' = Append(c2s, CmdByte(TEST_END))
            /\ c_log' = Append(c_log, "TEST_END")
            /\ cstats' = Stats_stop(cstats, now)
            /\ c_obs' = <<Min(c_obs[1] + 1, 2), c_obs[2] + 1, c_obs[3] + 1>>
       ELSE /\ c_obs' = <<Min(c_obs[1] + 1, 2), c_obs[2], c_obs[3]>>
            /\ UNCHANGED <<c2s, c_log, cstats>>
    /\ UNCHANGED <<now, udp_packet_id, s2c, tcp_c2s, udp_c2s, cpc, c_sctrl,
                   c_sdata, c_reg, start, udp_last_send, c_rdata, c_off,
                   c_events, serverVars, framing_ok>>

\* lines 401-408: UDP reverse, one datagram is read and accounted
ClientDataUdpRecv ==
    /\ CDataEvent
    /\ ~Expired /\ udp /\ reverse
    /\ udp_s2c # << >>
    /\ udp_s2c' = Tail(udp_s2c)
    /\ cstats' = UdpReverseStats(cstats, udp_packet_id, Head(udp_s2c)[2])
    /\ udp_packet_id' = Head(udp_s2c)[2]
    /\ c_events' = c_events + 1
    /\ UNCHANGED <<now, c2s, s2c, tcp_c2s, tcp_s2c, udp_c2s, cpc, c_sctrl,
                   c_sdata, c_reg, start, udp_last_send, c_rdata, c_off,
                   c_log, c_obs, serverVars, framing_ok>>

(* Variant of the UDP forward branch that moves udp_last_send to the
   time of the send. *)
Mut_UdpSendAdvancesToNow ==
    /\ CDataEvent
    /\ ~Expired /\ udp /\ ~reverse
    /\ IF now - udp_last_send > udp_interval
       THEN /\ udp_last_send' = now
            /\ udp_packet_id' = udp_packet_id + 1
            /\ udp_c2s' = Append(udp_c2s, <<"data", udp_packet_id + 1>>)
            /\ cstats' = Stats_add_bytes(cstats, BufLen)
       ELSE UNCHANGED <<udp_last_send, udp_packet_id, udp_c2s, cstats>>
    /\ c_events' = c_events + 1
    /\ UNCHANGED <<now, c2s, s2c, tcp_c2s, tcp_s2c, udp_s2c, cpc, c_sctrl,
                   c_sdata, c_reg, start, c_rdata, c_off, c_log, c_obs,
                   serverVars, framing_ok>>

\* lines 409-416: UDP forward, a datagram is sent when the pacing allows
ClientDataUdpSend ==
    /\ CDataEvent
    /\ ~Expired /\ udp /\ ~reverse
    /\ IF now - udp_last_send > udp_interval
       THEN /\ udp_last_send' = udp_last_send + udp_interval
            /\ udp_packet_id' = udp_packet_id + 1
            /\ udp_c2s' = Append(udp_c2s, <<"data", udp_packet_id + 1>>)
            /\ cstats' = Stats_add_bytes(cstats, BufLen)
       ELSE UNCHANGED <<udp_last_send, udp_packet_id, udp_c2s, cstats>>
    /\ c_events' = c_events + 1
    /\ UNCHANGED <<now, c2s, s2c, tcp_c2s, tcp_s2c, udp_s2c, cpc, c_sctrl,
                   c_sdata, c_reg, start, c_rdata, c_off, c_log, c_obs,
                   serverVars, framing_ok>>

\* lines 421-424: TCP forward, send(buf) takes between 1 and len(buf) bytes
ClientDataTcpSend ==
    /\ CDataEvent
    /\ ~Expired /\ ~udp /\ ~reverse
    /\ \E n \in 1..Min(BufLen, TcpFwdCap - tcp_c2s) :
           /\ tcp_c2s' = tcp_c2s + n
           /\ cstats' = Stats_add_bytes(cstats, n)
    /\ c_events' = c_events + 1
    /\ UNCHANGED <<now, udp_packet_id, c2s, s2c, tcp_s2c, udp_c2s, udp_s2c,
                   cpc, c_sctrl, c_sdata, c_reg, start, udp_last_send,
                   c_rdata, c_off, c_log, c_obs, serverVars, framing_ok>>

\* lines 418-419: TCP reverse, recvninto(s_data, buf) is entered
ClientDataTcpRecv ==
    /\ CDataEvent
    /\ ~Expired /\ ~udp /\ reverse
    /\ cpc' = "recvninto"
    /\ c_off' = 0
    /\ c_events' = c_events + 1
    /\ UNCHANGED <<now, cstats, udp_packet_id, wireVars, c_sctrl, c_sdata,
                   c_reg, start, udp_last_send, c_rdata, c_log, c_obs,
                   serverVars, framing_ok>>

\* lines 195-198 and 420, 424: one recv_into of recvninto; with the buffer
\* full, n = len(buf) is accounted.  (At end of stream recv_into returns 0
\* and the loop repeats without any change of state.)
ClientRecvninto ==
    /\ PrFrame
    /\ cpc = "recvninto"
    /\ \E k \in 1..Min(BufLen - c_off, tcp_s2c) :
           /\ tcp_s2c' = tcp_s2c - k
           /\ IF c_off + k = BufLen
              THEN /\ cstats' = Stats_add_bytes(cstats, BufLen)
                   /\ cpc' = "batch"
                   /\ c_off' = 0
              ELSE /\ c_off' = c_off + k
                   /\ UNCHANGED <<cstats, cpc>>
    /\ UNCHANGED <<now, udp_packet_id, c2s, s2c, tcp_c2s, udp_c2s, udp_s2c,
                   cbatch, c_sctrl, c_sdata, c_reg, start, udp_last_send,
                   c_rdata, c_events, c_log, c_obs, serverVars, framing_ok>>

(* Variant of the TEST_START branch without the test of reverse. *)
Mut_OnTestStartAlways ==
    /\ c_reg' = TRUE
    /\ start' = now
    /\ cstats' = Stats_start(cstats, now)
    /\ UNCHANGED <<udp_last_send, c2s, c_log, c_sdata, udp_c2s, tcp_c2s, cpc,
                   c_sctrl, c_rdata>>

\* lines 431-436: TEST_START
OnTestStart ==
    /\ IF reverse
       THEN /\ c_reg' = TRUE
            /\ start' = now
            /\ cstats' = Stats_start(cstats, now)
       ELSE UNCHANGED <<c_reg, start, cstats>>
    /\ UNCHANGED <<udp_last_send, c2s, c_log, c_sdata, udp_c2s, tcp_c2s, cpc,
                   c_sctrl, c_rdata>>

\* lines 437-444: TEST_RUNNING
OnTestRunning ==
    /\ IF ~reverse
       THEN /\ c_reg' = TRUE
            /\ start' = now
            /\ udp_last_send' = IF udp THEN now - udp_interval
                                       ELSE udp_last_send
            /\ cstats' = Stats_start(cstats, now)
       ELSE UNCHANGED <<c_reg, start, udp_last_send, cstats>>
    /\ UNCHANGED <<c2s, c_log, c_sdata, udp_c2s, tcp_c2s, cpc, c_sctrl,
                   c_rdata>>

\* lines 445-448: PARAM_EXCHANGE, the length and the text of the parameters
OnParamExchange ==
    /\ c2s' = c2s \o BlobBytes(PARAM)
    /\ c_log' = Append(c_log, "param")
    /\ UNCHANGED <<cstats, c_reg, start, udp_last_send, c_sdata, udp_c2s,
                   tcp_c2s, cpc, c_sctrl, c_rdata>>

\* lines 449-458: CREATE_STREAMS.  UDP: send the 4-byte datagram and wait
\* for the answer; TCP: connect and send the cookie.
OnCreateStreams ==
    /\ c_sdata' = "open"
    /\ IF udp
       THEN /\ udp_c2s' = Append(udp_c2s, <<"hello", 0>>)
            /\ cpc' = "hello_wait"
            /\ UNCHANGED tcp_c2s
       ELSE /\ tcp_c2s' = tcp_c2s + COOKIE_SIZE
            /\ UNCHANGED <<udp_c2s, cpc>>
    /\ UNCHANGED <<cstats, c_reg, start, udp_last_send, c2s, c_log, c_sctrl,
                   c_rdata>>

\* lines 459-484: EXCHANGE_RESULTS, up to the two sendall calls
OnExchangeResults ==
    /\ c_reg' = FALSE
    /\ c_sdata' = "closed"
    /\ c2s' = c2s \o BlobBytes(CRES)
    /\ c_log' = Append(c_log, "results")
    /\ c_rdata' = << >>
    /\ cpc' = "res_len"
    /\ UNCHANGED <<cstats, start, udp_last_send, udp_c2s, tcp_c2s, c_sctrl>>

\* lines 491-495: DISPLAY_RESULTS
OnDisplayResults ==
    /\ c2s' = Append(c2s, CmdByte(IPERF_DONE))
    /\ c_log' = Append(c_log, "IPERF_DONE")
    /\ c_sctrl' = "closed"
    /\ cpc' = "done"
    /\ UNCHANGED <<cstats, c_reg, start, udp_last_send, c_sdata, udp_c2s,
                   tcp_c2s, c_rdata>>

\* no branch of the if/elif chain matches
OnOtherCommand ==
    UNCHANGED <<cstats, c_reg, start, udp_last_send, c2s, c_log, c_sdata,
                udp_c2s, tcp_c2s, cpc, c_sctrl, c_rdata>>

\* lines 426-495: an event of the control socket: cmd = recvn(s_ctrl, 1)[0]
ClientCtrlEvent ==
    /\ PrFrame
    /\ cpc = "batch" /\ cbatch # << >> /\ Head(cbatch) = "ctrl"
    /\ s2c # << >>
    /\ cbatch' = Tail(cbatch)
    /\ s2c' = Tail(s2c)
    /\ framing_ok' = (framing_ok /\ Head(s2c)[1] = "cmd")
    /\ LET cmd == IF Head(s2c)[1] = "cmd" THEN Head(s2c)[2] ELSE 0 IN
         CASE cmd = TEST_START -> OnTestStart
           [] cmd = TEST_RUNNING -> OnTestRunning
           [] cmd = PARAM_EXCHANGE -> OnParamExchange
           [] cmd = CREATE_STREAMS -> OnCreateStreams
           [] cmd = EXCHANGE_RESULTS -> OnExchangeResults
           [] cmd = DISPLAY_RESULTS -> OnDisplayResults
           [] OTHER -> OnOtherCommand
    /\ UNCHANGED <<now, udp_packet_id, tcp_s2c, udp_s2c, c_off, c_events,
                   c_obs, serverVars>>

\* line 453: recvn(s_data, 4) gets the server's answer datagram
ClientHelloWait ==
    /\ PrFrame
    /\ cpc = "hello_wait"
    /\ udp_s2c # << >>
    /\ udp_s2c' = Tail(udp_s2c)
    /\ cpc' = "batch"
    /\ UNCHANGED <<now, cstats, udp_packet_id, c2s, s2c, tcp_c2s, tcp_s2c,
                   udp_c2s, cbatch, c_sctrl, c_sdata, c_reg, start,
                   udp_last_send, c_rdata, c_off, c_events, c_log, c_obs,
                   serverVars, framing_ok>>

\* the n of the recvn(s_ctrl, n) call in progress
CRecvnN == IF cpc = "res_len" THEN 4 ELSE JsonLen

\* lines 486-487: one recv_into of recvn(s_ctrl, 4) / recvn(s_ctrl, n)
ClientRecvnStep ==
    /\ PrFrame
    /\ cpc \in {"res_len", "res_body"}
    /\ Len(c_rdata) < CRecvnN
    /\ \E k \in recv_into_counts(recvn_buflen(CRecvnN), s2c) :
           /\ c_rdata' = c_rdata \o SubSeq(s2c, 1, k)
           /\ s2c' = SubSeq(s2c, k + 1, Len(s2c))
    /\ UNCHANGED <<now, cstats, udp_packet_id, c2s, tcp_c2s, tcp_s2c,
                   udp_c2s, udp_s2c, cpc, cbatch, c_sctrl, c_sdata, c_reg,
                   start, udp_last_send, c_off, c_events, c_log, c_obs,
                   serverVars, framing_ok>>

\* line 486: n = struct.unpack('>I', recvn(s_ctrl, 4))[0]; unpack raises
\* unless it is given exactly 4 bytes
ClientResLen ==
    /\ PrFrame
    /\ cpc = "res_len"
    /\ Len(c_rdata) >= 4
    /\ IF c_rdata = LenBytes(SRES)
       THEN /\ cpc' = "res_body"
            /\ UNCHANGED framing_ok
       ELSE /\ cpc' = "error"
            /\ framing_ok' = FALSE
    /\ c_rdata' = << >>
    /\ UNCHANGED <<now, cstats, udp_packet_id, wireVars, cbatch, c_sctrl,
                   c_sdata, c_reg, start, udp_last_send, c_off, c_events,
                   c_log, c_obs, serverVars>>

\* lines 487-489: results = json.loads(str(recvn(s_ctrl, n), 'ascii'));
\* json.loads raises on bytes after the end of the text
ClientResBody ==
    /\ PrFrame
    /\ cpc = "res_body"
    /\ Len(c_rdata) >= JsonLen
    /\ IF c_rdata = BodyBytes(SRES)
       THEN /\ cpc' = "batch"
            /\ UNCHANGED framing_ok
       ELSE /\ cpc' = "error"
            /\ framing_ok' = FALSE
    /\ c_rdata' = << >>
    /\ UNCHANGED <<now, cstats, udp_packet_id, wireVars, cbatch, c_sctrl,
                   c_sdata, c_reg, start, udp_last_send, c_off, c_events,
                   c_log, c_obs, serverVars>>

\* ticks(): the clock advances while the test runs
Tick ==
    /\ PrFrame
    /\ start # NoTick
    /\ now < start + ticks_end + 2
    /\ now' = now + 1
    /\ UNCHANGED <<cstats, udp_packet_id, wireVars, clientVars, serverVars,
                   framing_ok>>

ClientNext ==
    \/ ClientConnect
    \/ ClientPoll
    \/ ClientUpdate
    \/ ClientDataStale
    \/ ClientDataExpired
    \/ ClientDataUdpRecv
    \/ ClientDataUdpSend
    \/ ClientDataTcpSend
    \/ ClientDataTcpRecv
    \/ ClientRecvninto
    \/ ClientCtrlEvent
    \/ ClientHelloWait
    \/ ClientRecvnStep
    \/ ClientResLen
    \/ ClientResBody

(***************************************************************************)
(* server()                                                                *)
(***************************************************************************)
\* s_ctrl.sendall(bytes([cmd]))
SWriteCmd(cmd, name) ==
    /\ s2c' = Append(s2c, CmdByte(cmd))
    /\ s_log' = Append(s_log, name)

\* line 218: s_ctrl, addr = s_listen.accept()
ServerAccept ==
    /\ PrFrame
    /\ spc = "accept"
    /\ c_sctrl = "open"
    /\ s_ctrl' = "open"
    /\ s_rdata' = << >>
    /\ spc' = "cookie"
    /\ UNCHANGED <<now, cstats, udp_packet_id, wireVars, clientVars, sbatch,
                   s_listen, s_data, s_off, running, sstats, s_bufid, s_log,
                   framing_ok>>

\* the n of the recvn(s_ctrl, n) call in progress
SRecvnN ==
    IF spc = "cookie" THEN COOKIE_SIZE
    ELSE IF spc \in {"param_len", "res_len"} THEN 4
    ELSE JsonLen

\* lines 221, 229, 230, 297, 298: one recv_into of recvn(s_ctrl, n)
ServerRecvnStep ==
    /\ PrFrame
    /\ spc \in {"cookie", "param_len", "param_body", "res_len", "res_body"}
    /\ Len(s_rdata) < SRecvnN
    /\ \E k \in recv_into_counts(recvn_buflen(SRecvnN), c2s) :
           /\ s_rdata' = s_rdata \o SubSeq(c2s, 1, k)
           /\ c2s' = SubSeq(c2s, k + 1, Len(c2s))
    /\ UNCHANGED <<now, cstats, udp_packet_id, s2c, tcp_c2s, tcp_s2c, udp_c2s,
                   udp_s2c, clientVars, spc, sbatch, s_listen, s_ctrl, s_data,
                   s_off, running, sstats, s_bufid, s_log, framing_ok>>

\* lines 221-226: the cookie is read (not checked); ask for the parameters
ServerCookie ==
    /\ PrFrame
    /\ spc = "cookie"
    /\ Len(s_rdata) >= COOKIE_SIZE
    /\ framing_ok' = (framing_ok /\ s_rdata = CookieBytes)
    /\ SWriteCmd(PARAM_EXCHANGE, "w:PARAM_EXCHANGE")
    /\ s_rdata' = << >>
    /\ spc' = "param_len"
    /\ UNCHANGED <<now, cstats, udp_packet_id, c2s, tcp_c2s, tcp_s2c, udp_c2s,
                   udp_s2c, clientVars, sbatch, s_listen, s_ctrl, s_data,
                   s_off, running, sstats, s_bufid>>

\* lines 229, 297: n = struct.unpack('>I', recvn(s_ctrl, 4))[0]; unpack
\* raises unless it is given exactly 4 bytes
ServerLen ==
    /\ PrFrame
    /\ spc \in {"param_len", "res_len"}
    /\ Len(s_rdata) >= 4
    /\ IF s_rdata = LenBytes(IF spc = "param_len" THEN PARAM ELSE CRES)
       THEN /\ spc' = (IF spc = "param_len" THEN "param_body" ELSE "res_body")
            /\ UNCHANGED framing_ok
       ELSE /\ spc' = "error"
            /\ framing_ok' = FALSE
    /\ s_rdata' = << >>
    /\ UNCHANGED <<now, cstats, udp_packet_id, wireVars, clientVars, sbatch,
                   s_listen, s_ctrl, s_data, s_off, running, sstats, s_bufid,
                   s_log>>

\* lines 230-237: the parameters are parsed; ask to create streams
ServerParam ==
    /\ PrFrame
    /\ spc = "param_body"
    /\ Len(s_rdata) >= JsonLen
    /\ IF s_rdata = BodyBytes(PARAM)
       THEN /\ s2c' = Append(s2c, CmdByte(CREATE_STREAMS))
            /\ s_log' = s_log \o <<"r:param", "w:CREATE_STREAMS">>
            /\ spc' = "streams"
            /\ UNCHANGED framing_ok
       ELSE /\ spc' = "error"
            /\ framing_ok' = FALSE
            /\ UNCHANGED <<s2c, s_log>>
    /\ s_rdata' = << >>
    /\ UNCHANGED <<now, cstats, udp_packet_id, c2s, tcp_c2s, tcp_s2c, udp_c2s,
                   udp_s2c, clientVars, sbatch, s_listen, s_ctrl, s_data,
                   s_off, running, sstats, s_bufid>>

\* lines 239-242: TCP, accept the data connection
ServerStreamsTcp ==
    /\ PrFrame
    /\ spc = "streams"
    /\ ~bare /\ ~udp
    /\ c_sdata = "open"
    /\ s_data' = "open"
    /\ s_off' = 0
    /\ spc' = "data_cookie"
    /\ UNCHANGED <<now, cstats, udp_packet_id, wireVars, clientVars, sbatch,
                   s_listen, s_ctrl, s_rdata, running, sstats, s_bufid, s_log,
                   framing_ok>>

\* line 243: recvn(s_data, COOKIE_SIZE), one recv_into
ServerDataCookie ==
    /\ PrFrame
    /\ spc = "data_cookie"
    /\ \E k \in 1..Min(recvn_buflen(COOKIE_SIZE), tcp_c2s) :
           /\ tcp_c2s' = tcp_c2s - k
           /\ s_off' = s_off + k
           /\ spc' = (IF s_off + k >= COOKIE_SIZE THEN "test_start"
                                                  ELSE "data_cookie")
    /\ UNCHANGED <<now, cstats, udp_packet_id, c2s, s2c, tcp_s2c, udp_c2s,
                   udp_s2c, clientVars, sbatch, s_listen, s_ctrl, s_data,
                   s_rdata, running, sstats, s_bufid, s_log, framing_ok>>

\* lines 244-248: UDP, close the listening socket and bind a datagram socket
ServerStreamsUdp ==
    /\ PrFrame
    /\ spc = "streams"
    /\ ~bare /\ udp
    /\ s_listen' = "closed"
    /\ s_data' = "open"
    /\ spc' = "udp_hello"
    /\ UNCHANGED <<now, cstats, udp_packet_id, wireVars, clientVars, sbatch,
                   s_ctrl, s_rdata, s_off, running, sstats, s_bufid, s_log,
                   framing_ok>>

\* lines 249-250: recvfrom(4), then the answer to the sender
ServerUdpHello ==
    /\ PrFrame
    /\ spc = "udp_hello"
    /\ udp_c2s # << >>
    /\ udp_c2s' = Tail(udp_c2s)
    /\ udp_s2c' = Append(udp_s2c, <<"answer", 0>>)
    /\ spc' = "test_start"
    /\ UNCHANGED <<now, cstats, udp_packet_id, c2s, s2c, tcp_c2s, tcp_s2c,
                   clientVars, sbatch, s_listen, s_ctrl, s_data, s_rdata,
                   s_off, running, sstats, s_bufid, s_log, framing_ok>>

(* Variant without the else branch: the server goes on to start the test. *)
Mut_ServerStreamsNoneGoesOn ==
    /\ PrFrame
    /\ spc = "streams"
    /\ bare
    /\ spc' = "test_start"
    /\ UNCHANGED <<now, cstats, udp_packet_id, wireVars, clientVars, sbatch,
                   s_listen, s_ctrl, s_data, s_rdata, s_off, running, sstats,
                   s_bufid, s_log, framing_ok>>

\* lines 251-252: neither tcp nor udp: assert False raises
ServerStreamsNone ==
    /\ PrFrame
    /\ spc = "streams"
    /\ bare
    /\ spc' = "error"
    /\ UNCHANGED <<now, cstats, udp_packet_id, wireVars, clientVars, sbatch,
                   s_listen, s_ctrl, s_data, s_rdata, s_off, running, sstats,
                   s_bufid, s_log, framing_ok>>

\* line 255
ServerTestStart ==
    /\ PrFrame
    /\ spc = "test_start"
    /\ SWriteCmd(TEST_START, "w:TEST_START")
    /\ spc' = "test_running"
    /\ UNCHANGED <<now, cstats, udp_packet_id, c2s, tcp_c2s, tcp_s2c, udp_c2s,
                   udp_s2c, clientVars, sbatch, s_listen, s_ctrl, s_data,
                   s_rdata, s_off, running, sstats, s_bufid, framing_ok>>

\* line 258
ServerTestRunning ==
    /\ PrFrame
    /\ spc = "test_running"
    /\ SWriteCmd(TEST_RUNNING, "w:TEST_RUNNING")
    /\ spc' = "setup"
    /\ UNCHANGED <<now, cstats, udp_packet_id, c2s, tcp_c2s, tcp_s2c, udp_c2s,
                   udp_s2c, clientVars, sbatch, s_listen, s_ctrl, s_data,
                   s_rdata, s_off, running, sstats, s_bufid, framing_ok>>

\* lines 261-270: register the sockets, start the statistics, fill data_buf
\* with random bytes (of which bytes 8..11 are read as a sequence id by a
\* UDP receiver)
ServerSetup ==
    /\ PrFrame
    /\ spc = "setup"
    /\ sstats' = Stats_start(Stats_init, now)
    /\ running' = TRUE
    /\ s_bufid' \in (IF udp /\ reverse THEN 0..MaxId ELSE {0})
    /\ spc' = "poll"
    /\ UNCHANGED <<now, cstats, udp_packet_id, wireVars, clientVars, sbatch,
                   s_listen, s_ctrl, s_data, s_rdata, s_off, s_log,
                   framing_ok>>

SCtrlReady == c2s # << >>

SDataReady ==
    IF reverse
    THEN IF udp THEN Len(udp_s2c) < DataCap ELSE tcp_s2c < DataCap
    ELSE IF udp THEN udp_c2s # << >> ELSE tcp_c2s > 0

\* line 272: poll.poll(stats.max_dt_ms())
ServerPoll ==
    /\ PrFrame
    /\ spc = "poll"
    /\ \/ \E b \in Batches(SCtrlReady, SDataReady) : sbatch' = b
       \/ /\ ~SCtrlReady /\ ~SDataReady
          /\ Stats_max_dt_ms(sstats, now) = 0
          /\ sbatch' = << >>
    /\ spc' = "batch"
    /\ UNCHANGED <<now, cstats, udp_packet_id, wireVars, clientVars, s_listen,
                   s_ctrl, s_data, s_rdata, s_off, running, sstats, s_bufid,
                   s_log, framing_ok>>

(* Variant of the loop tail that leaves the data phase after the first
   batch whether or not TEST_END has been read. *)
Mut_ServerUpdateLeaves ==
    /\ PrFrame
    /\ spc = "batch" /\ sbatch = << >>
    /\ sstats' = Stats_update(sstats, FALSE, now)
    /\ spc' = "finish"
    /\ UNCHANGED <<now, cstats, udp_packet_id, wireVars, clientVars, sbatch,
                   s_listen, s_ctrl, s_data, s_rdata, s_off, running, s_bufid,
                   s_log, framing_ok>>

\* lines 286, 271: stats.update(), then the loop test
ServerUpdate ==
    /\ PrFrame
    /\ spc = "batch" /\ sbatch = << >>
    /\ sstats' = Stats_update(sstats, FALSE, now)
    /\ spc' = (IF running THEN "poll" ELSE "finish")
    /\ UNCHANGED <<now, cstats, udp_packet_id, wireVars, clientVars, sbatch,
                   s_listen, s_ctrl, s_data, s_rdata, s_off, running, s_bufid,
                   s_log, framing_ok>>

\* lines 273-278: cmd = recvn(s_ctrl, 1)[0]; TEST_END ends the loop
ServerCtrlEvent ==
    /\ PrFrame
    /\ spc = "batch" /\ sbatch # << >> /\ Head(sbatch) = "ctrl"
    /\ c2s # << >>
    /\ sbatch' = Tail(sbatch)
    /\ c2s' = Tail(c2s)
    /\ framing_ok' = (framing_ok /\ Head(c2s)[1] = "cmd")
    /\ IF Head(c2s) = CmdByte(TEST_END)
       THEN /\ running' = FALSE
            /\ s_log' = Append(s_log, "r:TEST_END")
       ELSE UNCHANGED <<running, s_log>>
    /\ UNCHANGED <<now, cstats, udp_packet_id, s2c, tcp_c2s, tcp_s2c, udp_c2s,
                   udp_s2c, clientVars, spc, s_listen, s_ctrl, s_data,
                   s_rdata, s_off, sstats, s_bufid>>

SDataEvent ==
    /\ PrFrame
    /\ spc = "batch" /\ sbatch # << >> /\ Head(sbatch) = "data"
    /\ sbatch' = Tail(sbatch)

\* lines 280-282: reverse, n = s_data.send(data_buf)
ServerDataSend ==
    /\ SDataEvent
    /\ reverse
    /\ IF udp
       THEN /\ udp_s2c' = Append(udp_s2c, <<"data", s_bufid>>)
            /\ sstats' = Stats_add_bytes(sstats, BufLen)
            /\ UNCHANGED tcp_s2c
       ELSE /\ \E n \in 1..Min(BufLen, DataCap - tcp_s2c) :
                   /\ tcp_s2c' = tcp_s2c + n
                   /\ sstats' = Stats_add_bytes(sstats, n)
            /\ UNCHANGED udp_s2c
    /\ UNCHANGED <<now, cstats, udp_packet_id, c2s, s2c, tcp_c2s, udp_c2s,
                   clientVars, spc, s_listen, s_ctrl, s_data, s_rdata, s_off,
                   running, s_bufid, s_log, framing_ok>>

\* lines 283-285: forward, UDP: recvninto gets one datagram
ServerDataUdpRecv ==
    /\ SDataEvent
    /\ ~reverse /\ udp
    /\ udp_c2s # << >>
    /\ udp_c2s' = Tail(udp_c2s)
    /\ sstats' = Stats_add_bytes(sstats, BufLen)
    /\ UNCHANGED <<now, cstats, udp_packet_id, c2s, s2c, tcp_c2s, tcp_s2c,
                   udp_s2c, clientVars, spc, s_listen, s_ctrl, s_data,
                   s_rdata, s_off, running, s_bufid, s_log, framing_ok>>

\* line 284: forward, TCP: recvninto(s_data, data_buf) is entered
ServerDataTcpRecv ==
    /\ SDataEvent
    /\ ~reverse /\ ~udp
    /\ spc' = "recvninto"
    /\ s_off' = 0
    /\ UNCHANGED <<now, cstats, udp_packet_id, wireVars, clientVars, s_listen,
                   s_ctrl, s_data, s_rdata, running, sstats, s_bufid, s_log,
                   framing_ok>>

\* lines 195-198 and 285: one recv_into of recvninto, which returns with the
\* buffer full; then stats.add_bytes(len(data_buf))
ServerRecvninto ==
    /\ PrFrame
    /\ spc = "recvninto"
    /\ \E k \in 1..Min(BufLen - s_off, tcp_c2s) :
           /\ tcp_c2s' = tcp_c2s - k
           /\ IF s_off + k = BufLen
              THEN /\ sstats' = Stats_add_bytes(sstats, BufLen)
                   /\ spc' = "batch"
                   /\ s_off' = 0
              ELSE /\ s_off' = s_off + k
                   /\ UNCHANGED <<sstats, spc>>
    /\ UNCHANGED <<now, cstats, udp_packet_id, c2s, s2c, tcp_s2c, udp_c2s,
                   udp_s2c, clientVars, sbatch, s_listen, s_ctrl, s_data,
                   s_rdata, running, s_bufid, s_log, framing_ok>>

\* lines 289-294: close the data socket (reverse), stop the statistics, ask
\* to exchange results
ServerFinish ==
    /\ PrFrame
    /\ spc = "finish"
    /\ s_data' = (IF reverse THEN "closed" ELSE s_data)
    /\ sstats' = Stats_stop(sstats, now)
    /\ SWriteCmd(EXCHANGE_RESULTS, "w:EXCHANGE_RESULTS")
    /\ s_rdata' = << >>
    /\ spc' = "res_len"
    /\ UNCHANGED <<now, cstats, udp_packet_id, c2s, tcp_c2s, tcp_s2c, udp_c2s,
                   udp_s2c, clientVars, sbatch, s_listen, s_ctrl, s_off,
                   running, s_bufid, framing_ok>>

\* lines 298-323: the client's results are parsed; send our results
ServerResults ==
    /\ PrFrame
    /\ spc = "res_body"
    /\ Len(s_rdata) >= JsonLen
    /\ IF s_rdata = BodyBytes(CRES)
       THEN /\ s2c' = s2c \o BlobBytes(SRES)
            /\ s_log' = s_log \o <<"r:results", "w:results">>
            /\ spc' = "display"
            /\ UNCHANGED framing_ok
       ELSE /\ spc' = "error"
            /\ framing_ok' = FALSE
            /\ UNCHANGED <<s2c, s_log>>
    /\ s_rdata' = << >>
    /\ UNCHANGED <<now, cstats, udp_packet_id, c2s, tcp_c2s, tcp_s2c, udp_c2s,
                   udp_s2c, clientVars, sbatch, s_listen, s_ctrl, s_data,
                   s_off, running, sstats, s_bufid>>

\* line 326
ServerDisplay ==
    /\ PrFrame
    /\ spc = "display"
    /\ SWriteCmd(DISPLAY_RESULTS, "w:DISPLAY_RESULTS")
    /\ spc' = "wait_done"
    /\ UNCHANGED <<now, cstats, udp_packet_id, c2s, tcp_c2s, tcp_s2c, udp_c2s,
                   udp_s2c, clientVars, sbatch, s_listen, s_ctrl, s_data,
                   s_rdata, s_off, running, sstats, s_bufid, framing_ok>>

\* lines 329-335: cmd = recvn(s_ctrl, 1)[0]; assert cmd == IPERF_DONE;
\* close all sockets
ServerDone ==
    /\ PrFrame
    /\ spc = "wait_done"
    /\ c2s # << >>
    /\ c2s' = Tail(c2s)
    /\ framing_ok' = (framing_ok /\ Head(c2s)[1] = "cmd")
    /\ IF Head(c2s) = CmdByte(IPERF_DONE)
       THEN /\ s_data' = "closed"
            /\ s_ctrl' = "closed"
            /\ s_listen' = "closed"
            /\ s_log' = Append(s_log, "r:IPERF_DONE")
            /\ spc' = "done"
       ELSE /\ spc' = "error"
            /\ UNCHANGED <<s_data, s_ctrl, s_listen, s_log>>
    /\ UNCHANGED <<now, cstats, udp_packet_id, s2c, tcp_c2s, tcp_s2c, udp_c2s,
                   udp_s2c, clientVars, sbatch, s_rdata, s_off, running,
                   sstats, s_bufid>>

ServerNext ==
    \/ ServerAccept
    \/ ServerRecvnStep
    \/ ServerCookie
    \/ ServerLen
    \/ ServerParam
    \/ ServerStreamsTcp
    \/ ServerDataCookie
    \/ ServerStreamsUdp
    \/ ServerUdpHello
    \/ ServerStreamsNone
    \/ ServerTestStart
    \/ ServerTestRunning
    \/ ServerSetup
    \/ ServerPoll
    \/ ServerUpdate
    \/ ServerCtrlEvent
    \/ ServerDataSend
    \/ ServerDataUdpRecv
    \/ ServerDataTcpRecv
    \/ ServerRecvninto
    \/ ServerFinish
    \/ ServerResults
    \/ ServerDisplay
    \/ ServerDone

(***************************************************************************)
(* The run: the server listens, client() is called with its arguments.     *)
(* In a run with `bare` the peer is not client(), which always sets tcp or  *)
(* udp: it follows the same protocol but its parameters name neither.      *)
(***************************************************************************)
Init ==
    /\ now = 0
    /\ TickIdle
    /\ StatsIdle
    /\ RecvIdle
    /\ udp \in BOOLEAN /\ reverse \in BOOLEAN
    /\ ptime \in {0, ParamTime}
    /\ bare \in BOOLEAN
    /\ bare => ~udp /\ ~reverse /\ ptime = ParamTime
    /\ c2s = << >> /\ s2c = << >>
    /\ tcp_c2s = 0 /\ tcp_s2c = 0
    /\ udp_c2s = << >> /\ udp_s2c = << >>
    /\ cpc = "start" /\ cbatch = << >>
    /\ c_sctrl = "none" /\ c_sdata = "none" /\ c_reg = FALSE
    /\ start = NoTick /\ udp_last_send = NoTick
    /\ c_rdata = << >> /\ c_off = 0 /\ c_events = 0
    /\ c_log = << >> /\ c_obs = <<0, 0, 0>>
    /\ spc = "accept" /\ sbatch = << >>
    /\ s_listen = "open" /\ s_ctrl = "none" /\ s_data = "none"
    /\ s_rdata = << >> /\ s_off = 0
    /\ running = FALSE /\ sstats = Stats_init /\ s_bufid = 0
    /\ s_log = << >>
    /\ framing_ok = TRUE

Next == ClientNext \/ ServerNext \/ Tick

Spec == Init /\ [][Next]_vars

(***************************************************************************)
(* SpecStray: the same run with a peer that also writes command bytes the  *)
(* reader has no use for at that point (an iperf3 peer has more commands   *)
(* than this program handles).  One such byte is in a stream at a time.    *)
(***************************************************************************)
\* the commands client() has a branch for
ClientHandled == {TEST_START, TEST_RUNNING, PARAM_EXCHANGE, CREATE_STREAMS,
                  EXCHANGE_RESULTS, DISPLAY_RESULTS}

\* line 428: a byte the client will read as a command, outside its six,
\* written while the client is in poll.poll()
PeerStrayToClient ==
    /\ PrFrame
    /\ cpc = "poll"
    /\ s2c = << >>
    /\ s2c' = <<CmdByte(TEST_END)>>
    /\ UNCHANGED <<now, cstats, udp_packet_id, c2s, tcp_c2s, tcp_s2c, udp_c2s,
                   udp_s2c, clientVars, serverVars, framing_ok>>

\* lines 274, 329: a byte the server will read as a command, in the data
\* loop (while it is in poll.poll()) or when it waits for IPERF_DONE, that
\* is neither TEST_END nor IPERF_DONE
PeerStrayToServer ==
    /\ PrFrame
    /\ spc \in {"poll", "wait_done"}
    /\ c2s = << >>
    /\ c2s' = <<CmdByte(TEST_START)>>
    /\ UNCHANGED <<now, cstats, udp_packet_id, s2c, tcp_c2s, tcp_s2c, udp_c2s,
                   udp_s2c, clientVars, serverVars, framing_ok>>

StrayNext == Next \/ PeerStrayToClient \/ PeerStrayToServer

SpecStray == Init /\ [][StrayNext]_vars

(***************************************************************************)
(* SpecStart: client() from the point where it has handled CREATE_STREAMS, *)
(* against a peer that has written TEST_START and TEST_RUNNING in either   *)
(* order and, in reverse mode, the first data.  server() takes no part.    *)
(***************************************************************************)
StartInit ==
    /\ now = 0
    /\ TickIdle
    /\ StatsIdle
    /\ RecvIdle
    /\ udp \in BOOLEAN /\ reverse \in BOOLEAN
    /\ ptime = ParamTime /\ bare = FALSE
    /\ c2s = << >>
    /\ s2c \in {<<CmdByte(TEST_START), CmdByte(TEST_RUNNING)>>,
                <<CmdByte(TEST_RUNNING), CmdByte(TEST_START)>>}
    /\ tcp_c2s = 0
    /\ tcp_s2c = (IF reverse /\ ~udp THEN DataCap ELSE 0)
    /\ udp_c2s = << >>
    /\ udp_s2c = (IF reverse /\ udp
                  THEN [i \in 1..DataCap |-> <<"data", i>>] ELSE << >>)
    /\ cpc = "poll" /\ cbatch = << >>
    /\ c_sctrl = "open" /\ c_sdata = "open" /\ c_reg = FALSE
    /\ start = NoTick /\ udp_last_send = NoTick
    /\ c_rdata = << >> /\ c_off = 0 /\ c_events = 0
    /\ c_log = <<"cookie", "param">> /\ c_obs = <<0, 0, 0>>
    /\ spc = "idle" /\ sbatch = << >>
    /\ s_listen = "closed" /\ s_ctrl = "none" /\ s_data = "none"
    /\ s_rdata = << >> /\ s_off = 0
    /\ running = FALSE /\ sstats = Stats_init /\ s_bufid = 0
    /\ s_log = << >>
    /\ framing_ok = TRUE

StartNext ==
    \/ ClientPoll
    \/ ClientUpdate
    \/ ClientCtrlEvent
    \/ ClientDataExpired
    \/ ClientDataUdpRecv
    \/ ClientDataUdpSend
    \/ ClientDataTcpSend
    \/ ClientDataTcpRecv
    \/ ClientRecvninto
    \/ Tick

SpecStart == StartInit /\ [][StartNext]_vars

(***************************************************************************)
(* SpecWrap: client() in the forward modes on the millisecond clock, from  *)
(* the arrival of TEST_START and TEST_RUNNING to the end of the test.      *)
(* `now` is the time; ticks() returns the counter reading ticks_ms(now),   *)
(* and the run starts up to WrapLead ticks before the counter wraps.       *)
(***************************************************************************)
\* supervisor.ticks_ms() now
ticks == ticks_ms(now)

\* Stats.update(), Stats.stop() and Stats.max_dt_ms() with the ticks_diff
\* of the millisecond clock
Stats_update_ms(s, final, t2) ==
    IF ~s.running THEN s
    ELSE IF final \/ ticks_diff_ms(t2, s.t1) > PacingTimer
         THEN [s EXCEPT !.t1 = t2, !.nb1 = 0, !.np1 = 0, !.nm1 = 0]
         ELSE s

Stats_stop_ms(s, t) ==
    [Stats_update_ms(s, TRUE, t) EXCEPT !.running = FALSE, !.t3 = t]

Stats_max_dt_ms_wrap(s, t) ==
    IF ~s.running THEN -1
    ELSE LET d == PacingTimer - ticks_diff_ms(t, s.t1)
         IN  IF d > 0 THEN d ELSE 0

\* line 390: ticks_diff(t, start) > ticks_end
ExpiredMs == ticks_diff_ms(ticks, start) > ticks_end

\* line 411: t - udp_last_send > udp_interval
PaceMs == ticks - udp_last_send > udp_interval

\* what a step of SpecWrap leaves alone
WrFrame ==
    /\ PrFrame
    /\ UNCHANGED <<tcp_s2c, udp_s2c, c_sctrl, c_sdata, c_rdata, c_off,
                   serverVars, framing_ok>>

WrapInit ==
    /\ now \in (TICKS_PERIOD - WrapLead)..TICKS_PERIOD
    /\ TickIdle
    /\ StatsIdle
    /\ RecvIdle
    /\ udp \in BOOLEAN /\ reverse = FALSE
    /\ ptime \in {0, ParamTime} /\ bare = FALSE
    /\ c2s = << >>
    /\ s2c = <<CmdByte(TEST_START), CmdByte(TEST_RUNNING)>>
    /\ tcp_c2s = 0 /\ tcp_s2c = 0
    /\ udp_c2s = << >> /\ udp_s2c = << >>
    /\ cpc = "poll" /\ cbatch = << >>
    /\ c_sctrl = "open" /\ c_sdata = "open" /\ c_reg = FALSE
    /\ start = NoTick /\ udp_last_send = NoTick
    /\ c_rdata = << >> /\ c_off = 0 /\ c_events = 0
    /\ c_log = <<"cookie", "param">> /\ c_obs = <<0, 0, 0>>
    /\ spc = "idle" /\ sbatch = << >>
    /\ s_listen = "closed" /\ s_ctrl = "none" /\ s_data = "none"
    /\ s_rdata = << >> /\ s_off = 0
    /\ running = FALSE /\ sstats = Stats_init /\ s_bufid = 0
    /\ s_log = << >>
    /\ framing_ok = TRUE

\* the data socket is registered and writable; of the events before the end
\* of the test, MaxEvents are followed
WDataReady ==
    /\ c_reg
    /\ ExpiredMs \/ c_events < MaxEvents
    /\ IF udp THEN Len(udp_c2s) < DataCap ELSE tcp_c2s < TcpFwdCap

\* line 386: poll.poll(stats.max_dt_ms())
WrapPoll ==
    /\ WrFrame
    /\ cpc = "poll"
    /\ \/ \E b \in Batches(CCtrlReady, WDataReady) : cbatch' = b
       \/ /\ ~CCtrlReady /\ ~WDataReady
          /\ Stats_max_dt_ms_wrap(cstats, ticks) = 0
          /\ cbatch' = << >>
    /\ cpc' = "batch"
    /\ UNCHANGED <<now, cstats, udp_packet_id, c2s, s2c, tcp_c2s, udp_c2s,
                   c_reg, start, udp_last_send, c_events, c_log, c_obs>>

\* line 497: the batch is done, stats.update()
WrapUpdate ==
    /\ WrFrame
    /\ cpc = "batch" /\ cbatch = << >>
    /\ cstats' = Stats_update_ms(cstats, FALSE, ticks)
    /\ cpc' = "poll"
    /\ UNCHANGED <<now, udp_packet_id, c2s, s2c, tcp_c2s, udp_c2s, cbatch,
                   c_reg, start, udp_last_send, c_events, c_log, c_obs>>

\* lines 426-444: TEST_START (nothing to do, not reverse) or TEST_RUNNING
\* (register s_data, start = ticks(), udp_last_send, stats.start())
WrapCtrlEvent ==
    /\ WrFrame
    /\ cpc = "batch" /\ cbatch # << >> /\ Head(cbatch) = "ctrl"
    /\ s2c # << >>
    /\ cbatch' = Tail(cbatch)
    /\ s2c' = Tail(s2c)
    /\ IF Head(s2c)[2] = TEST_RUNNING
       THEN /\ c_reg' = TRUE
            /\ start' = ticks
            /\ udp_last_send' = IF udp THEN ticks - udp_interval
                                       ELSE udp_last_send
            /\ cstats' = Stats_start(cstats, ticks)
       ELSE UNCHANGED <<c_reg, start, udp_last_send, cstats>>
    /\ UNCHANGED <<now, udp_packet_id, c2s, tcp_c2s, udp_c2s, cpc, c_events,
                   c_log, c_obs>>

\* lines 387-389: an event of the data socket
WDataEvent ==
    /\ WrFrame
    /\ cpc = "batch" /\ cbatch # << >> /\ Head(cbatch) = "data"
    /\ cbatch' = Tail(cbatch)

\* lines 390-397: the test time is over
WrapDataExpired ==
    /\ WDataEvent
    /\ ExpiredMs
    /\ IF cstats.running
       THEN /\ c2s' = Append(c2s, CmdByte(TEST_END))
            /\ c_log' = Append(c_log, "TEST_END")
            /\ cstats' = Stats_stop_ms(cstats, ticks)
            /\ c_obs' = <<Min(c_obs[1] + 1, 2), c_obs[2] + 1, c_obs[3] + 1>>
       ELSE /\ c_obs' = <<Min(c_obs[1] + 1, 2), c_obs[2], c_obs[3]>>
            /\ UNCHANGED <<c2s, c_log, cstats>>
    /\ UNCHANGED <<now, udp_packet_id, s2c, tcp_c2s, udp_c2s, cpc, c_reg,
                   start, udp_last_send, c_events>>

\* lines 409-416: UDP forward
WrapDataUdpSend ==
    /\ WDataEvent
    /\ ~ExpiredMs /\ udp
    /\ IF PaceMs
       THEN /\ udp_last_send' = udp_last_send + udp_interval
            /\ udp_packet_id' = udp_packet_id + 1
            /\ udp_c2s' = Append(udp_c2s, <<"data", udp_packet_id + 1>>)
            /\ cstats' = Stats_add_bytes(cstats, BufLen)
       ELSE UNCHANGED <<udp_last_send, udp_packet_id, udp_c2s, cstats>>
    /\ c_events' = c_events + 1
    /\ UNCHANGED <<now, c2s, s2c, tcp_c2s, cpc, c_reg, start, c_log, c_obs>>

\* lines 421-424: TCP forward
WrapDataTcpSend ==
    /\ WDataEvent
    /\ ~ExpiredMs /\ ~udp
    /\ \E n \in 1..Min(BufLen, TcpFwdCap - tcp_c2s) :
           /\ tcp_c2s' = tcp_c2s + n
           /\ cstats' = Stats_add_bytes(cstats, n)
    /\ c_events' = c_events + 1
    /\ UNCHANGED <<now, udp_packet_id, c2s, s2c, udp_c2s, cpc, c_reg, start,
                   udp_last_send, c_log, c_obs>>

\* ticks since the TEST_RUNNING handler read the clock (fewer than a period)
Elapsed == (now - start) % TICKS_PERIOD

\* time passes, to two ticks beyond the end of the test
WrapTick ==
    /\ WrFrame
    /\ start # NoTick
    /\ Elapsed < ticks_end + 2
    /\ now' = now + 1
    /\ UNCHANGED <<cstats, udp_packet_id, c2s, s2c, tcp_c2s, udp_c2s, cpc,
                   cbatch, c_reg, start, udp_last_send, c_events, c_log,
                   c_obs>>

WrapNext ==
    \/ WrapPoll
    \/ WrapUpdate
    \/ WrapCtrlEvent
    \/ WrapDataExpired
    \/ WrapDataUdpSend
    \/ WrapDataTcpSend
    \/ WrapTick

SpecWrap == WrapInit /\ [][WrapNext]_vars

\* the scheduler runs both programs and the clock advances
FairSpec == Spec /\ WF_vars(ClientNext) /\ WF_vars(ServerNext) /\ WF_vars(Tick)

(***************************************************************************)
(* Properties of recvn (checked under SpecRecvn).                          *)
(***************************************************************************)
\* C9: when the peer has closed the socket before the expected bytes have
\* arrived, the reading side fails with an error and does not hang: once a
\* recv_into of recvn has returned 0, recvn is no longer in its loop.
C9_ClosedPeerFailsRead ==
    rv_eofs > 0 => rv_pc # "loop"

(***************************************************************************)
(* Properties of the Stats accumulator (checked under SpecStats).          *)
(***************************************************************************)
SeqMax(q) == CHOOSE x \in {q[i] : i \in 1..Len(q)} :
                 \A j \in 1..Len(q) : x >= q[j]

\* C5: in a UDP-reverse run the cumulative lost-packet count nm0 equals the
\* largest sequence id received so far minus the number of datagrams
\* received, for every sequence of received ids.
C5_LostIsMaxSeenMinusReceived ==
    st_ids # << >> => cstats.nm0 = SeqMax(st_ids) - Len(st_ids)

\* C6: after start(), each interval counter is at most its cumulative
\* counter: nb1 <= nb0, np1 <= np0 and nm1 <= nm0.
C6_IntervalAtMostCumulative ==
    st_started => /\ cstats.nb1 <= cstats.nb0
                  /\ cstats.np1 <= cstats.np0
                  /\ cstats.nm1 <= cstats.nm0

\* C7: while running, no step decreases a cumulative counter nb0, np0, nm0.
C7_CumulativeNeverDecreases ==
    [][cstats.running => /\ cstats'.nb0 >= cstats.nb0
                         /\ cstats'.np0 >= cstats.np0
                         /\ cstats'.nm0 >= cstats.nm0]_vars

\* C8: add_bytes(n) while running adds exactly n to nb0 and nb1 and exactly
\* 1 to np0 and np1 and changes nothing else of the object; while not
\* running it changes nothing.
C8_AddBytesExact ==
    [][(st_nops' = st_nops + 1 /\ st_op'[1] = "add_bytes") =>
         IF cstats.running
         THEN cstats' = [cstats EXCEPT !.nb0 = cstats.nb0 + st_op'[2],
                                       !.nb1 = cstats.nb1 + st_op'[2],
                                       !.np0 = cstats.np0 + 1,
                                       !.np1 = cstats.np1 + 1]
         ELSE cstats' = cstats]_vars

\* add_bytes has been called while running (a packet is counted) and has
\* just been called again after stop(): both cases of C8 have happened.
C8_Witness ==
    /\ st_op[1] = "add_bytes"
    /\ ~cstats.running
    /\ st_started
    /\ cstats.np0 >= 1
    /\ cstats.nb0 >= 1

-----------------------------------------------------------------------------
(* Claims about the control-channel protocol, checked under Spec/FairSpec. *)

IsPrefix(p, q) == Len(p) <= Len(q) /\ SubSeq(q, 1, Len(p)) = p

\* What server() writes to and reads from the control channel, in order.
ServerScript ==
    <<"w:PARAM_EXCHANGE", "r:param", "w:CREATE_STREAMS", "w:TEST_START",
      "w:TEST_RUNNING", "r:TEST_END", "w:EXCHANGE_RESULTS", "r:results",
      "w:results", "w:DISPLAY_RESULTS", "r:IPERF_DONE">>

\* C1: the server writes PARAM_EXCHANGE, CREATE_STREAMS, TEST_START,
\* TEST_RUNNING, EXCHANGE_RESULTS, DISPLAY_RESULTS in exactly this order,
\* each once; it reads the parameter blob between PARAM_EXCHANGE and
\* CREATE_STREAMS, writes EXCHANGE_RESULTS only after it has read TEST_END,
\* and reads the client's results before it writes its own.  At every
\* moment the server's control traffic is a prefix of ServerScript, and a
\* server that has returned has gone through all of it.
C1_ServerCommandOrder ==
    /\ IsPrefix(s_log, ServerScript)
    /\ spc = "done" => s_log = ServerScript

\* A server that has returned normally, in a run whose data phase moved data.
C1_Witness ==
    /\ spc = "done"
    /\ s_log = ServerScript
    /\ sstats.np0 >= 1

\* C2: in each of the four modes the run terminates: under fair scheduling
\* of client, server and clock, some side eventually returns (normally or
\* with an exception) rather than both sides waiting forever.
C2_RunTerminates ==
    <>(cpc \in {"done", "error"} \/ spc \in {"done", "error"})

NumTestEnd == Cardinality({i \in DOMAIN c_log : c_log[i] = "TEST_END"})

\* C3: the client writes TEST_END exactly once, at the first data-socket
\* event after the test duration has expired, and calls stats.stop() at
\* that same event: none before the first expired event, exactly one from
\* then on, however many expired events follow.
C3_TestEndOnceAtExpiry ==
    /\ NumTestEnd = (IF c_obs[1] >= 1 THEN 1 ELSE 0)
    /\ c_obs[2] = NumTestEnd
    /\ c_obs[3] = NumTestEnd
    /\ c_obs[1] >= 1 => ~cstats.running

\* A second data event has been handled after expiry.
C3_Witness ==
    /\ c_obs[1] = 2
    /\ NumTestEnd = 1
    /\ c_obs[3] = 1

\* What client() puts on the control channel, in order.
ClientScript == <<"cookie", "param", "TEST_END", "results", "IPERF_DONE">>

\* C4: the two sides never lose framing on the control channel: every
\* command byte read was written as a command byte, every length and body
\* read as a JSON blob was written as exactly that blob, and the client
\* writes cookie, parameters, TEST_END, results, IPERF_DONE in that order.
C4_ControlFramingInSync ==
    /\ framing_ok
    /\ IsPrefix(c_log, ClientScript)

\* C10: when client() or server() is left, normally or by an exception,
\* every socket it opened has been closed.
C10_SocketsClosedOnExit ==
    /\ cpc \in {"done", "error"} => c_sctrl # "open" /\ c_sdata # "open"
    /\ spc \in {"done", "error"} =>
           s_listen # "open" /\ s_ctrl # "open" /\ s_data # "open"

-----------------------------------------------------------------------------
(* Claims about the data channel, checked under Spec. *)

\* the last element of a sequence
Last(q) == q[Len(q)]

\* a data datagram has just been put on the wire w (w2 is w after the step)
UdpDataSent(w, w2) ==
    /\ Len(w2) = Len(w) + 1
    /\ Last(w2)[1] = "data"

\* C11: every UDP data datagram the sending side puts on the wire (the
\* client in UDP forward, the server in UDP reverse) carries the sequence
\* id 1 if it is the first and otherwise the id of the previous one plus
\* one: the k-th datagram sent carries k.  The sender's packet count np0
\* is the number of datagrams it has sent before the step.
C11_UdpSequenceIds ==
    [][/\ UdpDataSent(udp_c2s, udp_c2s') =>
              Last(udp_c2s')[2] = cstats.np0 + 1
       /\ UdpDataSent(udp_s2c, udp_s2c') =>
              Last(udp_s2c')[2] = sstats.np0 + 1]_vars

InLog(log, name) == \E i \in DOMAIN log : log[i] = name

\* C12: when the parameters the server has received set neither tcp nor
\* udp, the run ends with an error: the server is never past the point
\* where it chooses the kind of stream, so it never writes TEST_START,
\* TEST_RUNNING or EXCHANGE_RESULTS, never starts its statistics or the
\* data loop, and does not return normally.
C12_NoProtocolEndsRun ==
    bare =>
        /\ spc \in {"accept", "cookie", "param_len", "param_body", "streams",
                    "error"}
        /\ ~InLog(s_log, "w:TEST_START")
        /\ ~InLog(s_log, "w:TEST_RUNNING")
        /\ ~InLog(s_log, "w:EXCHANGE_RESULTS")
        /\ ~running /\ ~sstats.running

\* the server has asked for streams with such parameters and has failed
C12_Witness ==
    /\ bare
    /\ InLog(s_log, "w:CREATE_STREAMS")
    /\ spc = "error"
    /\ framing_ok

-----------------------------------------------------------------------------
(* Further claims about the Stats accumulator, checked under SpecStats. *)

Totals(s) == <<s.nb0, s.np0, s.nm0>>
Counters(s) == <<s.nb0, s.np0, s.nm0, s.nb1, s.np1, s.nm1>>

\* an operation of the given name has just been applied
StJust(name) == st_nops' = st_nops + 1 /\ st_op'[1] = name

\* C13 as stated: update() (final = false) with no add_bytes and no
\* add_lost_packets since the previous update() leaves nb0, np0, nm0, nb1,
\* np1, nm1 unchanged, and no update(), that of stop() included, changes
\* nb0, np0, nm0.
C13_UpdateNoOpSinceUpdate ==
    [][/\ (StJust("update") /\ ~st_dirty[1]) =>
              Counters(cstats') = Counters(cstats)
       /\ (StJust("update") \/ StJust("stop")) =>
              Totals(cstats') = Totals(cstats)]_vars

\* C13 amended: update() (final = false) with no add_bytes and no
\* add_lost_packets since the interval counters were last reset (by start()
\* or by an update() past the pacing timer) leaves all six counters
\* unchanged, and no update() changes nb0, np0, nm0.
C13_UpdateNoOpSinceReset ==
    [][/\ (StJust("update") /\ ~st_dirty[2]) =>
              Counters(cstats') = Counters(cstats)
       /\ (StJust("update") \/ StJust("stop")) =>
              Totals(cstats') = Totals(cstats)]_vars

\* update() has just been called on a running object that has counted
\* packets, with nothing added since the interval was last reset, and it
\* did not end an interval itself.
C13_Witness ==
    /\ st_op[1] = "update"
    /\ cstats.running
    /\ cstats.np0 >= 1
    /\ ~st_dirty[2]
    /\ cstats.t1 < now

-----------------------------------------------------------------------------
(* Claims about the millisecond clock, checked under SpecTicks. *)

Abs(x) == IF x < 0 THEN -x ELSE x

\* C14: on the millisecond counter, ticks_diff(a, b) of two counter
\* readings is the true signed difference of the times they were taken at,
\* whenever that difference is smaller in size than half a period:
\* |d| < TICKS_HALFPERIOD (2**28 for the period 2**29).
C14_TicksDiffIsTrueDifference ==
    (tk_diff # NoDiff /\ Abs(tk_a - tk_b) < TICKS_HALFPERIOD) =>
        tk_diff = tk_a - tk_b

\* the counter has wrapped between the two readings, in either order
C14_Witness ==
    /\ tk_a >= TICKS_PERIOD /\ tk_b < TICKS_PERIOD
    /\ ticks_ms(tk_a) < ticks_ms(tk_b)
    /\ Abs(tk_a - tk_b) < TICKS_HALFPERIOD
    /\ tk_diff = tk_a - tk_b

-----------------------------------------------------------------------------
(* Claims about stray command bytes, checked under SpecStray. *)

\* the step reads the command byte at the head of the stream w
ReadsCmd(w, w2) == w # << >> /\ Head(w)[1] = "cmd" /\ w2 = Tail(w)

\* the client reads a command outside the six it handles
ClientReadsOther ==
    /\ cpc = "batch" /\ cbatch # << >> /\ Head(cbatch) = "ctrl"
    /\ ReadsCmd(s2c, s2c')
    /\ Head(s2c)[2] \notin ClientHandled

\* the server reads, in the data loop, a command other than TEST_END
ServerLoopReadsOther ==
    /\ spc = "batch" /\ sbatch # << >> /\ Head(sbatch) = "ctrl"
    /\ ReadsCmd(c2s, c2s')
    /\ Head(c2s)[2] # TEST_END

\* the server reads, where it waits for IPERF_DONE, another command
ServerWaitReadsOther ==
    /\ spc = "wait_done"
    /\ ReadsCmd(c2s, c2s')
    /\ Head(c2s)[2] # IPERF_DONE

-----------------------------------------------------------------------------
(* Further claims about a run, checked under Spec. *)

\* C16: in a TCP forward run that completes, the byte total the server
\* reports (nb0 of its stats) is at most the total the client has sent
\* (nb0 of the client's stats) and at least that total minus one buffer
\* length.
C16_TcpForwardTotalsClose ==
    (~udp /\ ~reverse /\ cpc = "done" /\ spc = "done") =>
        /\ sstats.nb0 <= cstats.nb0
        /\ sstats.nb0 >= cstats.nb0 - BufLen

\* C17: with param['time'] = 0 the client ends the test at the very first
\* event of the data socket: no data event is handled by the send/receive
\* branch, and no payload is sent or accounted, whatever the clock reads at
\* that event.
C17_TimeZeroEndsAtFirstEvent ==
    ptime = 0 =>
        /\ c_events = 0
        /\ cstats.nb0 = 0 /\ cstats.np0 = 0
        /\ (c_reg /\ ~reverse) => tcp_c2s = 0 /\ udp_c2s = << >>

-----------------------------------------------------------------------------
(* Claims about the start of the test, checked under SpecStart. *)

\* the client handles an event of the data socket
ClientDataStep ==
    /\ cpc = "batch" /\ cbatch # << >> /\ Head(cbatch) = "data"
    /\ cbatch' = Tail(cbatch)

\* the command that starts the client's side: TEST_START in reverse mode,
\* TEST_RUNNING in forward mode
StartingCmd == IF reverse THEN TEST_START ELSE TEST_RUNNING

\* C18: whichever of TEST_START and TEST_RUNNING the client reads first,
\* it registers the data socket and calls stats.start() when it reads the
\* one that starts its side (and had done neither before), and changes
\* none of this when it reads the other; so with both read, each has
\* happened exactly once.  No event of the data socket is handled before
\* start, the data socket and buffer and, in UDP forward mode,
\* udp_last_send have been set.
C18_StartedOnceInEitherOrder ==
    [][/\ (ReadsCmd(s2c, s2c') /\ Head(s2c)[2] = StartingCmd) =>
              /\ ~c_reg /\ c_reg'
              /\ start = NoTick /\ start' = now
              /\ ~cstats.running /\ cstats'.running
       /\ (ReadsCmd(s2c, s2c') /\ Head(s2c)[2] # StartingCmd) =>
              UNCHANGED <<c_reg, start, udp_last_send, cstats>>
       /\ ClientDataStep =>
              /\ c_reg /\ start # NoTick /\ c_sdata = "open"
              /\ (udp /\ ~reverse) => udp_last_send # NoTick]_vars

\* forward mode, TEST_RUNNING was read first: a data event has been handled
\* while TEST_START is still unread
C18_Witness ==
    /\ ~reverse
    /\ s2c = <<CmdByte(TEST_START)>>
    /\ c_reg /\ start # NoTick
    /\ c_events >= 1

-----------------------------------------------------------------------------
(* A further claim about recvn, checked under SpecRecvn. *)

\* C19: recvn(s, n) takes exactly n bytes from the stream and returns
\* them, however the stream delivers them: the bytes it holds are never
\* more than n, and what it has returned is n bytes long, so that no byte
\* of what follows in the stream is taken.
C19_RecvnTakesExactlyN ==
    /\ Len(rv_data) <= rv_n
    /\ (rv_pc = "idle" /\ rv_n > 0) => Len(rv_ret) = rv_n

-----------------------------------------------------------------------------
(* A claim about the pacing of UDP forward runs, checked under Spec. *)

\* a divided by b, rounded up
Ceil(a, b) == (a + b - 1) \div b

\* in a UDP forward run that has started, udp_last_send is udp_interval
\* before start plus udp_interval for every datagram sent, and no more than
\* ceil(ticks_end / udp_interval) datagrams have been sent
UdpPaced ==
    (udp /\ ~reverse /\ start # NoTick) =>
        /\ udp_last_send = start - udp_interval + udp_packet_id * udp_interval
        /\ udp_packet_id <= Ceil(ticks_end, udp_interval)

\* C20: in a UDP forward run (udp_interval > 0) udp_last_send advances by
\* exactly udp_interval per datagram sent; the k-th datagram is sent only
\* when more than (k-1) * udp_interval ticks have passed since start; and
\* the number of datagrams sent never exceeds ceil(ticks_end /
\* udp_interval), however many write events there are.
C20_UdpForwardPacing ==
    [][/\ UdpPaced'
       /\ UdpDataSent(udp_c2s, udp_c2s') =>
              ticks_diff(now, start) > udp_packet_id * udp_interval]_vars

\* the data socket has been writable more often than datagrams were sent
C20_Witness ==
    /\ udp /\ ~reverse
    /\ udp_packet_id >= 2
    /\ c_events > udp_packet_id
    /\ udp_packet_id = Ceil(ticks_end, udp_interval)

-----------------------------------------------------------------------------
(* A claim about the millisecond clock, checked under SpecWrap. *)

\* a data event of the client's loop is handled
WrapDataStep ==
    /\ cpc = "batch" /\ cbatch # << >> /\ Head(cbatch) = "data"
    /\ cbatch' = Tail(cbatch)

\* the end-of-test check makes the decision of an unwrapped clock: the
\* handler takes the send branch (and counts the event) exactly when no
\* more than ticks_end ticks have passed since start
WrapEndCheckSame ==
    [][WrapDataStep =>
           ((c_events' = c_events + 1) <=> ~(Elapsed > ticks_end))]_vars

\* C21: on the millisecond counter a wrap during a run shorter than half a
\* period changes no decision of the client: the end-of-test check gives
\* the result of an unwrapped clock, and in UDP forward mode, before the
\* end of the test, a datagram is sent exactly when an unwrapped clock
\* would allow it, that is when more than udp_interval ticks have passed
\* since udp_interval before start plus udp_interval per datagram sent.
C21_WrapChangesNoDecision ==
    [][WrapDataStep =>
           /\ (c_events' = c_events + 1) <=> ~(Elapsed > ticks_end)
           /\ (udp /\ ~(Elapsed > ticks_end)) =>
                  (UdpDataSent(udp_c2s, udp_c2s') <=>
                       Elapsed > udp_packet_id * udp_interval)]_vars

-----------------------------------------------------------------------------
(* A claim about the client after the end of the test, checked under Spec. *)

\* the step is an operation of the client on its data socket: bytes or a
\* datagram are sent (the server only takes from these channels) or
\* received (the server only adds to those)
ClientDataOp ==
    \/ tcp_c2s' > tcp_c2s
    \/ Len(udp_c2s') > Len(udp_c2s)
    \/ tcp_s2c' < tcp_s2c
    \/ Len(udp_s2c') < Len(udp_s2c)

\* C22: once the client has sent TEST_END it sends nothing more on the data
\* channel and its cumulative counters nb0, np0, nm0 stay as they were at
\* stop(); once it has closed the data socket at EXCHANGE_RESULTS it does
\* nothing more with that socket, also when the poll batch that held
\* EXCHANGE_RESULTS holds an event of the data socket.
C22_QuietAfterTestEnd ==
    [][/\ InLog(c_log, "TEST_END") =>
              /\ ~(tcp_c2s' > tcp_c2s)
              /\ ~(Len(udp_c2s') > Len(udp_c2s))
              /\ Totals(cstats') = Totals(cstats)
       /\ c_sdata = "closed" =>
              /\ ~ClientDataOp
              /\ c_sdata' = "closed"
              /\ UNCHANGED <<c_events, c_obs>>]_vars

\* the data socket is closed, the results are exchanged, and an event of
\* the data socket from the batch of EXCHANGE_RESULTS is still to be handled
C22_Witness ==
    /\ InLog(c_log, "TEST_END")
    /\ c_sdata = "closed"
    /\ cpc = "batch" /\ cbatch = <<"data">>
    /\ cstats.nb0 > 0

=============================================================================
